---- MODULE Spec2Model ----
(***************************************************************************)
(* A model of trgtools' TCReader (python/trgtools/TCReader.py): the scan   *)
(* loop of read_fragment over a fragment's bytes, the two parallel         *)
(* sequences tc_data / ta_data, clear_data; and of find_save_name          *)
(* (scripts/event_display_trigger_records.py).                             *)
(***************************************************************************)
EXTENDS Integers, Sequences, FiniteSets, TLC

\* ------------------------------------------------------------------ bounds
\* Width in bytes of a candidate header and of one activity record (scaled
\* down from the trgdataformats layouts), longest fragment, and the caps
\* that keep the dataset and the counters finite.
HdrW == 2
ActW == 1
MaxLen == 5
MaxData == 2
MaxEmpty == 2
MaxRun == 2

Byte == {0, 1}

\* Every byte buffer a fragment can hold, the empty one included.
Fragments == UNION {[1..k -> Byte] : k \in 0..MaxLen}

VARIABLES
    tc_data,        \* self.tc_data: sequence of candidate records
    ta_data,        \* self.ta_data: ta_data[i] = the activities of the i-th candidate
    num_empty,      \* self._num_empty
    pc,             \* position of the running read_fragment: idle | while | ta | crashed
    fragment,       \* the bytes of the fragment of the last read_fragment call
    byte_idx,       \* read_fragment's local byte_idx
    tc_datum,       \* the TriggerCandidate overlay: where it points and the header it sees
    np_tc_datum,    \* read_fragment's local np_tc_datum (an array of one record)
    ret,            \* what the last read_fragment returned
    tc_before,      \* history: tc_data when the last read_fragment was called
    ta_before,      \* history: ta_data when the last read_fragment was called
    empty_before,   \* history: _num_empty when the last read_fragment was called
    last_op,        \* history: the last method called
    twice,          \* history: the last two calls were both clear_data
    files,          \* find_save_name: the names N for which N.pdf exists
    args,           \* find_save_name: its arguments
    save_name,      \* find_save_name: its local save_name
    fs_pc           \* find_save_name: idle | while | done

vars == <<tc_data, ta_data, num_empty, pc, fragment, byte_idx, tc_datum,
          np_tc_datum, ret, tc_before, ta_before, empty_before, last_op,
          twice, files, args, save_name, fs_pc>>

reader_vars == <<tc_data, ta_data, num_empty, pc, fragment, byte_idx, tc_datum,
                 np_tc_datum, ret, tc_before, ta_before, empty_before, last_op,
                 twice>>

fs_vars == <<files, args, save_name, fs_pc>>

\* ------------------------------------------- the trgdataformats overlay
\* TriggerCandidate(ptr) overlays the bytes at ptr: a header of HdrW bytes
\* whose first byte is the number of activities, then that many activity
\* records of ActW bytes each.  A byte past the end of the buffer is
\* whatever memory holds there.
NoDatum == [ptr |-> 0, hdr |-> <<>>]

HeaderViews(frag, idx) ==
    {h \in [1..HdrW -> Byte] :
        \A k \in 1..HdrW : idx + k <= Len(frag) => h[k] = frag[idx + k]}

n_inputs(hdr) == hdr[1]

sizeof(hdr) == HdrW + n_inputs(hdr) * ActW

ActivityViews(frag, idx, n) ==
    {a \in [1..n -> [1..ActW -> Byte]] :
        \A j \in 1..n : \A k \in 1..ActW :
            idx + HdrW + (j - 1) * ActW + k <= Len(frag)
                => a[j][k] = frag[idx + HdrW + (j - 1) * ActW + k]}

\* Whether the overlay's reads stay inside the buffer.
HeaderInBounds(frag, idx) == idx + HdrW <= Len(frag)

ActivitiesInBounds(frag, idx, n) == idx + HdrW + n * ActW <= Len(frag)

\* ------------------------------------------------------ read_fragment
\* np.array([(..., tc_datum.n_inputs(), tc_datum.data.time_candidate, ...)])
MakeTC(hdr) == <<[num_tas |-> n_inputs(hdr), time_candidate |-> hdr[2]]>>

\* np.array([(ta.adc_integral, ...)])
MakeTA(ta) == [adc_integral |-> ta[1]]

\* Mutant of hstack: the new candidate is put in front.
hstack_Prepend(data, datum) == datum \o data

\* np.hstack((self.tc_data, np_tc_datum))
hstack(data, datum) == data \o datum

\* Mutants of NextByteIdx: the activities' bytes are not counted; the
\* header's bytes are not counted.
NextByteIdx_HeaderOnly(idx, hdr) == idx + HdrW

NextByteIdx_NoHeader(idx, hdr) == idx + n_inputs(hdr) * ActW

\* byte_idx += tc_datum.sizeof()
NextByteIdx(idx, hdr) == idx + sizeof(hdr)

\* Mutant of np_ta_data: the array is one record short.
np_ta_data_OneShort(datum, tas) == [j \in 1..(datum[1].num_tas - 1) |-> MakeTA(tas[j])]

\* np.zeros(np_tc_datum['num_tas']) filled from enumerate(tc_datum)
np_ta_data(datum, tas) == [j \in 1..datum[1].num_tas |-> MakeTA(tas[j])]

\* return np.array([], dtype=self.tc_dt) of an empty fragment
EmptyResult == <<>>

\* return np_tc_datum
ReturnValue(datum) == datum

\* Mutant of CountEmpty: the counter is left alone.
CountEmpty_Skip(n) == n

\* self._num_empty += 1
CountEmpty(n) == n + 1

\* Lines 102-115: the fragment holds no data.
ReadEmptyFragment ==
    /\ pc = "idle"
    /\ num_empty < MaxEmpty
    /\ fragment' = <<>>
    /\ num_empty' = CountEmpty(num_empty)
    /\ ret' = EmptyResult
    /\ tc_before' = tc_data
    /\ ta_before' = ta_data
    /\ empty_before' = num_empty
    /\ last_op' = "read_fragment"
    /\ twice' = FALSE
    /\ UNCHANGED <<tc_data, ta_data, pc, byte_idx, tc_datum, np_tc_datum>>
    /\ UNCHANGED fs_vars

\* Lines 102-118: a fragment with data; the scan starts at byte 0.
ReadFragmentBegin ==
    /\ pc = "idle"
    /\ Len(tc_data) < MaxData
    /\ \E f \in Fragments \ {<<>>} : fragment' = f
    /\ byte_idx' = 0
    /\ tc_datum' = NoDatum
    /\ np_tc_datum' = <<>>
    /\ pc' = "while"
    /\ tc_before' = tc_data
    /\ ta_before' = ta_data
    /\ empty_before' = num_empty
    /\ last_op' = "read_fragment"
    /\ twice' = FALSE
    /\ UNCHANGED <<tc_data, ta_data, num_empty, ret>>
    /\ UNCHANGED fs_vars

\* Lines 119-140: one candidate is overlaid at byte_idx, appended to tc_data,
\* and byte_idx moves past it.
ProcessTC ==
    /\ pc = "while"
    /\ byte_idx < Len(fragment)
    /\ \E hdr \in HeaderViews(fragment, byte_idx) :
        /\ tc_datum' = [ptr |-> byte_idx, hdr |-> hdr]
        /\ np_tc_datum' = MakeTC(hdr)
        /\ tc_data' = hstack(tc_data, MakeTC(hdr))
        /\ byte_idx' = NextByteIdx(byte_idx, hdr)
    /\ pc' = "ta"
    /\ UNCHANGED <<ta_data, num_empty, fragment, ret, tc_before, ta_before,
                   empty_before, last_op, twice>>
    /\ UNCHANGED fs_vars

\* Lines 145-162: the candidate's activities are copied and appended to ta_data.
ProcessTA ==
    /\ pc = "ta"
    /\ \E tas \in ActivityViews(fragment, tc_datum.ptr, n_inputs(tc_datum.hdr)) :
        ta_data' = Append(ta_data, np_ta_data(np_tc_datum, tas))
    /\ pc' = "while"
    /\ UNCHANGED <<tc_data, num_empty, fragment, byte_idx, tc_datum, np_tc_datum,
                   ret, tc_before, ta_before, empty_before, last_op, twice>>
    /\ UNCHANGED fs_vars

\* A read past the end of the buffer may also hit unmapped memory: the
\* process dies (line 126 for the header, lines 146-161 for the activities).
Segfault ==
    /\ \/ /\ pc = "while"
          /\ byte_idx < Len(fragment)
          /\ ~HeaderInBounds(fragment, byte_idx)
       \/ /\ pc = "ta"
          /\ ~ActivitiesInBounds(fragment, tc_datum.ptr, n_inputs(tc_datum.hdr))
    /\ pc' = "crashed"
    /\ UNCHANGED <<tc_data, ta_data, num_empty, fragment, byte_idx, tc_datum,
                   np_tc_datum, ret, tc_before, ta_before, empty_before,
                   last_op, twice>>
    /\ UNCHANGED fs_vars

\* Lines 119, 164-167: the loop ends and the call returns.
ReadFragmentReturn ==
    /\ pc = "while"
    /\ ~(byte_idx < Len(fragment))
    /\ ret' = ReturnValue(np_tc_datum)
    /\ pc' = "idle"
    /\ byte_idx' = 0
    /\ tc_datum' = NoDatum
    /\ np_tc_datum' = <<>>
    /\ UNCHANGED <<tc_data, ta_data, num_empty, fragment, tc_before, ta_before,
                   empty_before, last_op, twice>>
    /\ UNCHANGED fs_vars

\* Lines 169-171.
ClearedTC == <<>>

\* Mutant of ClearedTA: clear_data forgets ta_data.
ClearedTA_Kept == ta_data

ClearedTA == <<>>

clear_data ==
    /\ pc = "idle"
    /\ tc_data' = ClearedTC
    /\ ta_data' = ClearedTA
    /\ last_op' = "clear_data"
    /\ twice' = (last_op = "clear_data")
    /\ fragment' = <<>>
    /\ tc_before' = <<>>
    /\ ta_before' = <<>>
    /\ empty_before' = num_empty
    /\ UNCHANGED <<num_empty, pc, byte_idx, tc_datum, np_tc_datum, ret>>
    /\ UNCHANGED fs_vars

\* ------------------------------------------------------ find_save_name
\* A save name is the run, the subrun, the trigger record and the suffix
\* that f"Run{run_id}-Subrun{subrun_id:04}-TriggerRecord{trg_record_id}"
\* and its "-zoom" variant spell out.
SubrunIds == {0}

TrgRecordIds == {1}

BaseName(a) == <<a.run_id, a.subrun_id, a.trg_record_id, "">>

ZoomName(a) == <<a.run_id, a.subrun_id, a.trg_record_id, "-zoom">>

ArgSets == [run_id : 1..MaxRun, subrun_id : SubrunIds,
            trg_record_id : TrgRecordIds, overwrite : BOOLEAN]

Names == {BaseName(a) : a \in ArgSets} \cup {ZoomName(a) : a \in ArgSets}

NoArgs == [run_id |-> 1, subrun_id |-> 0, trg_record_id |-> 1, overwrite |-> FALSE]

\* not overwrite and os.path.exists(save_name + ".pdf")
WhileCondition == ~args.overwrite /\ save_name \in files

\* Line 45: the call and the first name tried.
FindSaveNameCall ==
    /\ fs_pc = "idle"
    /\ \E a \in ArgSets :
        /\ args' = a
        /\ save_name' = BaseName(a)
    /\ fs_pc' = "while"
    /\ UNCHANGED files
    /\ UNCHANGED reader_vars

\* Lines 48-49: one turn of the loop.
FindSaveNameWhile ==
    /\ fs_pc = "while"
    /\ WhileCondition
    /\ save_name' = ZoomName(args)
    /\ UNCHANGED <<files, args, fs_pc>>
    /\ UNCHANGED reader_vars

\* Lines 48, 50-52: the loop ends and the name is returned.
FindSaveNameReturn ==
    /\ fs_pc = "while"
    /\ ~WhileCondition
    /\ fs_pc' = "done"
    /\ UNCHANGED <<files, args, save_name>>
    /\ UNCHANGED reader_vars

\* main, lines 247-254: the plots are written to save_name + ".pdf".
PlotPdf ==
    /\ fs_pc = "done"
    /\ files' = files \cup {save_name}
    /\ fs_pc' = "idle"
    /\ UNCHANGED <<args, save_name>>
    /\ UNCHANGED reader_vars


\* TCReader.__init__ (lines 65-67); HDF5Reader.__init__ starts the counter at 0.
Init ==
    /\ tc_data = <<>>
    /\ ta_data = <<>>
    /\ num_empty = 0
    /\ pc = "idle"
    /\ fragment = <<>>
    /\ byte_idx = 0
    /\ tc_datum = NoDatum
    /\ np_tc_datum = <<>>
    /\ ret = <<>>
    /\ tc_before = <<>>
    /\ ta_before = <<>>
    /\ empty_before = 0
    /\ last_op = "init"
    /\ twice = FALSE
    /\ files = {}
    /\ args = NoArgs
    /\ save_name = BaseName(NoArgs)
    /\ fs_pc = "idle"

Next ==
    \/ ReadEmptyFragment
    \/ ReadFragmentBegin
    \/ ProcessTC
    \/ ProcessTA
    \/ Segfault
    \/ ReadFragmentReturn
    \/ clear_data

Spec == Init /\ [][Next]_vars

\* The interpreter keeps running a call that has started.
FairSpec ==
    /\ Spec
    /\ WF_vars(ProcessTC \/ Segfault)
    /\ WF_vars(ProcessTA \/ Segfault)
    /\ WF_vars(ReadFragmentReturn)

\* find_save_name against every state of the file system.
ReaderIdle ==
    /\ tc_data = <<>>
    /\ ta_data = <<>>
    /\ num_empty = 0
    /\ pc = "idle"
    /\ fragment = <<>>
    /\ byte_idx = 0
    /\ tc_datum = NoDatum
    /\ np_tc_datum = <<>>
    /\ ret = <<>>
    /\ tc_before = <<>>
    /\ ta_before = <<>>
    /\ empty_before = 0
    /\ last_op = "init"
    /\ twice = FALSE

InitSave ==
    /\ ReaderIdle
    /\ files \in SUBSET Names
    /\ args = NoArgs
    /\ save_name = BaseName(NoArgs)
    /\ fs_pc = "idle"

NextSave ==
    \/ FindSaveNameCall
    \/ FindSaveNameWhile
    \/ FindSaveNameReturn
    \/ PlotPdf

SpecSave == InitSave /\ [][NextSave]_vars

\* ---------------------------------------------------------------- claims
\* What the byte format says of a buffer, independently of the scan: a
\* buffer is well formed when it is a run of whole records, each a header
\* followed by the activities its first byte declares.
RECURSIVE WellFormedFrom(_, _)
WellFormedFrom(f, idx) ==
    IF idx = Len(f) THEN TRUE
    ELSE IF idx + HdrW > Len(f) THEN FALSE
    ELSE LET nxt == idx + HdrW + f[idx + 1] * ActW
         IN  nxt <= Len(f) /\ WellFormedFrom(f, nxt)

WellFormed(f) == WellFormedFrom(f, 0)

\* The candidates of the whole records of a buffer, in buffer order.
RECURSIVE CandidatesFrom(_, _)
CandidatesFrom(f, idx) ==
    IF idx + HdrW > Len(f) THEN <<>>
    ELSE LET nxt == idx + HdrW + f[idx + 1] * ActW
         IN  IF nxt > Len(f) THEN <<>>
             ELSE <<[num_tas |-> f[idx + 1], time_candidate |-> f[idx + 2]]>>
                  \o CandidatesFrom(f, nxt)

CandidatesOf(f) == CandidatesFrom(f, 0)

Scanning == pc \in {"while", "ta"}

LoopFinished == pc = "while" /\ ~(byte_idx < Len(fragment))

Returned == pc = "idle" /\ last_op = "read_fragment"

NewCandidates == SubSeq(tc_data, Len(tc_before) + 1, Len(tc_data))

\* C1 (coverage): while a well-formed fragment is scanned byte_idx never
\* passes its size S, and when the loop finishes byte_idx is S exactly.
C1_Coverage ==
    (Scanning /\ WellFormed(fragment)) =>
        /\ byte_idx <= Len(fragment)
        /\ LoopFinished => byte_idx = Len(fragment)

C1_Witness ==
    /\ LoopFinished
    /\ WellFormed(fragment)
    /\ byte_idx = Len(fragment)
    /\ Len(NewCandidates) >= 2
    /\ \E i \in 1..Len(NewCandidates) : NewCandidates[i].num_tas > 0

\* C2 (truncation), as claimed: a fragment whose last record claims more
\* bytes than remain never makes read_fragment return normally, and the
\* dataset never holds more than the fragment's whole records.
C2_Truncation ==
    (last_op = "read_fragment" /\ ~WellFormed(fragment)) =>
        /\ pc # "idle"
        /\ Len(tc_data) <= Len(tc_before) + Len(CandidatesOf(fragment))
        /\ Len(ta_data) <= Len(ta_before) + Len(CandidatesOf(fragment))

\* C3 (parallel sequences), as claimed: tc_data and ta_data have the same
\* length in every reachable state, the states inside read_fragment included.
C3_ParallelSequences == Len(tc_data) = Len(ta_data)

C5_ReturnsFirst ==
    (Returned /\ fragment # <<>> /\ WellFormed(fragment)) =>
        ret = SubSeq(tc_data, Len(tc_before) + 1, Len(tc_before) + 1)

\* C6 (empty fragment): reading a fragment of size 0 returns an empty array,
\* leaves tc_data and ta_data as they were, adds exactly 1 to the
\* empty-fragment counter and does not fail; a fragment with data never
\* changes the counter.
C6_EmptyFragment ==
    /\ (Returned /\ fragment = <<>>) =>
        /\ ret = <<>>
        /\ tc_data = tc_before
        /\ ta_data = ta_before
        /\ num_empty = empty_before + 1
    /\ (last_op = "read_fragment" /\ fragment # <<>>) => num_empty = empty_before
    /\ (last_op = "read_fragment" /\ fragment = <<>>) => pc = "idle"

C6_Witness ==
    /\ Returned
    /\ fragment = <<>>
    /\ Len(tc_data) > 0
    /\ num_empty = empty_before + 1
    /\ empty_before > 0
    /\ ret = <<>>

\* C7 (order preservation): a read never moves or changes what the dataset
\* already held, and a well-formed fragment adds exactly its own candidates,
\* in buffer order, after them (so f1 then f2 gives f1's followed by f2's).
C7_OrderPreserved ==
    /\ last_op = "read_fragment" =>
        /\ Len(tc_before) <= Len(tc_data)
        /\ SubSeq(tc_data, 1, Len(tc_before)) = tc_before
    /\ (Returned /\ WellFormed(fragment)) =>
        tc_data = tc_before \o CandidatesOf(fragment)

C7_Witness ==
    /\ Returned
    /\ WellFormed(fragment)
    /\ Len(tc_before) >= 1
    /\ Len(CandidatesOf(fragment)) >= 2
    /\ tc_data = tc_before \o CandidatesOf(fragment)
    /\ tc_data[Len(tc_before) + 1] # tc_data[Len(tc_before) + 2]
    /\ \E i \in 1..Len(tc_before) : tc_data[i] = tc_data[Len(tc_before) + 1]

\* C8 (idempotent reset): every clear_data, a second one in a row included,
\* leaves tc_data and ta_data empty, and no step other than clear_data ever
\* shortens either of them.
C8_Reset ==
    [][ /\ last_op' = "clear_data" => (tc_data' = <<>> /\ ta_data' = <<>>)
        /\ (Len(tc_data') < Len(tc_data) \/ Len(ta_data') < Len(ta_data))
              => (pc = "idle" /\ last_op' = "clear_data") ]_vars

C8_Witness ==
    /\ last_op = "clear_data"
    /\ twice
    /\ Len(tc_data) = 0
    /\ Len(ta_data) = 0
    /\ ret # <<>>

\* C9 (forward progress): every turn of the scan loop moves byte_idx
\* strictly forward, and a scan that has started ends (the call returns, or
\* the process dies on a read outside the buffer).
C9_Progress ==
    /\ [][(pc = "while" /\ pc' = "ta") => byte_idx' > byte_idx]_vars
    /\ (pc = "while") ~> (pc \in {"idle", "crashed"})

C9_Witness ==
    /\ pc = "while"
    /\ byte_idx > 0
    /\ byte_idx < Len(fragment)
    /\ Len(NewCandidates) >= 2

\* C10 (find_save_name), as claimed: the loop never reaches a state where it
\* can neither leave nor change anything, and without overwrite the name
\* returned has no PDF yet.
C10_NewNameOrProgress ==
    /\ fs_pc = "while" => (ENABLED <<FindSaveNameWhile>>_vars \/ ENABLED FindSaveNameReturn)
    /\ (fs_pc = "done" /\ ~args.overwrite) => save_name \notin files

====
